---- MODULE Spec2Model ----
(***************************************************************************)
(* Fabrik dashboard backend: the monitoring pipeline.                      *)
(*   NetworkScanner (Inventory + Discoverer)  services/network_scanner.py  *)
(*   SSHManager (Collector)                   services/ssh_manager.py      *)
(*   AlertService (AlertEngine)               services/alerts.py           *)
(*   BackgroundScheduler                      services/scheduler.py        *)
(* Percentages are whole numbers; timestamps are whole seconds of `clock`  *)
(* (0 stands for None in last_seen / last_scan).                           *)
(***************************************************************************)
EXTENDS Integers, Sequences, FiniteSets, TLC

----------------------------------------------------------------------------
(* Bounds of the model *)

\* seconds the clock may advance
MaxClock == 1
\* check_machine calls made directly on the alert service in one behaviour
MaxEvals == 2
\* how far below the cap a history found at start may be
NearFull == 1
\* alerts one scheduler run may create before no further cycle is started
MaxCreated == 1
\* manual add_machine calls in one behaviour
MaxAdds == 1
MaxStarts == 2
MaxSessions == 3

----------------------------------------------------------------------------
(* Data model: models/machine.py *)

ONLINE == "online"
OFFLINE == "offline"
DEGRADED == "degraded"
UNKNOWN == "unknown"
MachineStatus == {ONLINE, OFFLINE, DEGRADED, UNKNOWN}

\* the usable host addresses of a network_subnet of two hosts (a /30), and
\* of one host (a /32)
Hosts == {"192.168.44.1", "192.168.44.2"}
SingleHost == {"192.168.44.1"}

CpuMetrics(u) == [usage_percent |-> u]
MemoryMetrics(u) == [usage_percent |-> u]
DiskMetrics(u) == [usage_percent |-> u, mount_point |-> "/"]

\* Machine(ip=...) with the given fields; everything else at its default
Machine(ip, status, cpu, mem, disks, seen, scan, auto) ==
    [ip |-> ip, status |-> status,
     cpu |-> CpuMetrics(cpu), memory |-> MemoryMetrics(mem), disks |-> disks,
     last_seen |-> seen, last_scan |-> scan, auto_discovered |-> auto]

----------------------------------------------------------------------------
(* AlertService: services/alerts.py *)

INFO == "info"
WARNING == "warning"
CRITICAL == "critical"

THRESHOLDS ==
    [cpu_warning |-> 80, cpu_critical |-> 95,
     memory_warning |-> 85, memory_critical |-> 95,
     disk_warning |-> 85, disk_critical |-> 95]

max_alerts == 200

VARIABLES
    alerts,        \* AlertService._alerts
    new_alerts,    \* what the last check_machine returned
    ack_call,      \* the last acknowledge_alert call: its id and what it returned
    emitted,       \* history variable: every alert appended since the last clear
    evals,         \* direct check_machine calls made so far
    arg,           \* the Machine handed to direct check_machine calls
    clock          \* datetime.utcnow(), in whole seconds

alertVars == <<alerts, new_alerts, ack_call, emitted, evals, arg, clock>>

VARIABLES
    subnet,          \* NetworkScanner.subnet, as the set of its usable host addresses
    machines,        \* NetworkScanner.machines: ip -> the Machine object held for it
    tasks,           \* the collection cycle in flight: ip -> its collect_metrics task
    collecting,      \* whether _metrics_collection_loop is inside its gather
    all_new_alerts,  \* all_new_alerts of the last collection cycle
    reachable,       \* environment: the hosts that answer a ping
    ssh_up,          \* environment: the hosts that accept an SSH session
    adds,            \* add_machine calls made so far
    marked,          \* history variable: the machines the last discovery set OFFLINE
    cycle_marked     \* history variable: `marked` as the cycle in flight found it

pipeVars ==
    <<subnet, machines, tasks, collecting, all_new_alerts, reachable, ssh_up, adds,
      marked, cycle_marked>>

VARIABLES
    connections,     \* WebSocketManager._connections: the sockets, in list order
    pub,             \* the broadcast call in flight, or the last one finished
    stalled          \* environment: the sockets whose send_text never completes

wsVars == <<connections, pub, stalled>>

VARIABLES
    key_path,        \* SSHManager._key_path
    ssh_connections, \* SSHManager._connections: ip -> the key its session was made with
    pending          \* _get_client calls between reading the key and caching: ip -> key

sshVars == <<key_path, ssh_connections, pending>>

VARIABLES
    running,         \* TaskScheduler._running
    scan_interval,   \* TaskScheduler.scan_interval, in seconds
    loops,           \* the three loop tasks: activity -> the await it is suspended at
    tick_log         \* history variable: activity -> what its current tick did so far

schedVars == <<running, scan_interval, loops, tick_log>>

VARIABLES
    trip,            \* one Machine on its way from the collector to a subscriber
    sync             \* the _collect_sync calls in flight: ip -> how far each got

VARIABLES
    sessions,        \* every paramiko.SSHClient made so far, in order of creation
    cache,           \* SSHManager._connections: ip -> the client cached for it
    calls,           \* the _get_client calls in flight: caller -> how far it got
    closed_all       \* whether the shutdown step has run close_all

connVars == <<sessions, cache, calls, closed_all>>

VARIABLES
    live_tasks,      \* the loop tasks that exist and are not cancelled: task -> await
    tracked_tasks,   \* BackgroundScheduler._tasks
    starts           \* start() calls made so far

lifeVars == <<live_tasks, tracked_tasks, starts>>

VARIABLES
    probe            \* one _collect_sync call with a session: outputs and results

moreVars == <<connVars, lifeVars, probe>>

newVars == <<schedVars, trip, sync, moreVars>>

vars == <<alertVars, pipeVars, wsVars, sshVars, newVars>>

NoCall == [id |-> <<>>, ret |-> FALSE, made |-> FALSE, again |-> FALSE]

\* _create_alert: the id is ip-metric-int(now)
create_alert(severity, ip, metric, value, threshold, now) ==
    [id |-> <<ip, metric, now>>, severity |-> severity, machine_ip |-> ip,
     metric |-> metric, value |-> value, threshold |-> threshold,
     created_at |-> now, acknowledged |-> FALSE]

\* an if/elif pair of check_machine: CRITICAL, else WARNING, else nothing
Mut_LevelAlerts(ip, metric, value, warn, crit, now) ==
    (IF value >= crit
       THEN <<create_alert(CRITICAL, ip, metric, value, crit, now)>> ELSE <<>>)
    \o (IF value >= warn
       THEN <<create_alert(WARNING, ip, metric, value, warn, now)>> ELSE <<>>)

LevelAlerts(ip, metric, value, warn, crit, now) ==
    IF value >= crit
      THEN <<create_alert(CRITICAL, ip, metric, value, crit, now)>>
      ELSE IF value >= warn
        THEN <<create_alert(WARNING, ip, metric, value, warn, now)>>
        ELSE <<>>

RECURSIVE DiskAlerts(_, _, _)
DiskAlerts(ip, disks, now) ==
    IF disks = <<>> THEN <<>>
    ELSE LevelAlerts(ip, "disk", Head(disks).usage_percent,
                     THRESHOLDS.disk_warning, THRESHOLDS.disk_critical, now)
         \o DiskAlerts(ip, Tail(disks), now)

StatusAlerts(m, now) ==
    IF m.status = OFFLINE
      THEN <<create_alert(CRITICAL, m.ip, "status", 0, 0, now)>>
      ELSE <<>>

\* the list check_machine builds for machine m at time now
CheckAlerts(m, now) ==
    LevelAlerts(m.ip, "cpu", m.cpu.usage_percent,
                THRESHOLDS.cpu_warning, THRESHOLDS.cpu_critical, now)
    \o LevelAlerts(m.ip, "memory", m.memory.usage_percent,
                   THRESHOLDS.memory_warning, THRESHOLDS.memory_critical, now)
    \o DiskAlerts(m.ip, m.disks, now)
    \o StatusAlerts(m, now)

Mut_TrimAlerts(s) ==
    IF Len(s) > max_alerts THEN SubSeq(s, 1, max_alerts) ELSE s

\* self._alerts = self._alerts[-self._max_alerts:]
TrimAlerts(s) ==
    IF Len(s) > max_alerts THEN SubSeq(s, Len(s) - max_alerts + 1, Len(s)) ELSE s

\* the history after check_machine has extended and trimmed it
Extended(hist, fresh) == TrimAlerts(hist \o fresh)

\* index of the first alert with the given id, 0 when there is none
FirstWithId(s, id) ==
    LET hits == {i \in 1..Len(s) : s[i].id = id} IN
    IF hits = {} THEN 0 ELSE CHOOSE i \in hits : \A j \in hits : i <= j

Mut_AckToggle(s, id) ==
    LET i == FirstWithId(s, id) IN
    IF i = 0 THEN s ELSE [s EXCEPT ![i].acknowledged = ~s[i].acknowledged]

Mut_AckUnknownHitsLast(s, id) ==
    LET i == FirstWithId(s, id) IN
    IF i = 0
      THEN (IF s = <<>> THEN s ELSE [s EXCEPT ![Len(s)].acknowledged = TRUE])
      ELSE [s EXCEPT ![i].acknowledged = TRUE]

\* acknowledge_alert: the history it leaves
Acknowledged(s, id) ==
    LET i == FirstWithId(s, id) IN
    IF i = 0 THEN s ELSE [s EXCEPT ![i].acknowledged = TRUE]

\* acknowledge_alert: what it returns
AckReturn(s, id) == FirstWithId(s, id) # 0

----------------------------------------------------------------------------
(* Inventory and Discoverer: services/network_scanner.py *)

EmptyMap == [h \in {} |-> FALSE]

Put(f, k, v) == [x \in DOMAIN f \cup {k} |-> IF x = k THEN v ELSE f[x]]
Mut_Drop(f, k) == EmptyMap
Drop(f, k) == [x \in DOMAIN f \ {k} |-> f[x]]

\* the order in which the inventory dict is iterated: the address order, in
\* which network.hosts() enumerates and discovery registers
HostOrder == <<"192.168.44.1", "192.168.44.2">>

Mut_DiscoveredMachine(ip, now) == Machine(ip, UNKNOWN, 0, 0, <<>>, now, 0, FALSE)

\* Machine(ip=ip, auto_discovered=True, last_seen=now): status and metrics
\* at their defaults (UNKNOWN, zeros, no disk entry)
DiscoveredMachine(ip, now) == Machine(ip, UNKNOWN, 0, 0, <<>>, now, 0, TRUE)

\* a machine of the static configuration, as _load_config builds it
ConfiguredMachine(ip) == Machine(ip, UNKNOWN, 0, 0, <<>>, 0, 0, FALSE)

Mut_SeenOne(m, now) ==
    [m EXCEPT !.last_seen = now,
              !.status = IF @ \in {UNKNOWN, OFFLINE} THEN ONLINE ELSE @]

\* a known machine that answered: last_seen, and UNKNOWN becomes ONLINE
SeenOne(m, now) ==
    [m EXCEPT !.last_seen = now,
              !.status = IF @ = UNKNOWN THEN ONLINE ELSE @]

Mut_Unseen(m) == [m EXCEPT !.status = IF @ = DEGRADED THEN @ ELSE OFFLINE]

\* a known machine that did not answer
Unseen(m) == [m EXCEPT !.status = OFFLINE]

\* scan_network: the addresses that answered, in the order of network.hosts()
DiscoveredIps(up) == SelectSeq(HostOrder, LAMBDA ip : ip \in up)

\* discover_new_machines: what it returns, as the addresses of the machines
\* it registered
NewMachines(machs, discovered_ips) ==
    SelectSeq(discovered_ips, LAMBDA ip : ip \notin DOMAIN machs)

Mut_Reconciled(machs, discovered, now) ==
    [ip \in DOMAIN machs |->
        IF ip \in discovered THEN SeenOne(machs[ip], now) ELSE Unseen(machs[ip])]

\* discover_new_machines: the inventory after its three loops
Reconciled(machs, discovered, now) ==
    LET registered ==
            [ip \in DOMAIN machs \cup discovered |->
                IF ip \in DOMAIN machs THEN machs[ip]
                ELSE DiscoveredMachine(ip, now)]
    IN [ip \in DOMAIN registered |->
            IF ip \in discovered
              THEN SeenOne(registered[ip], now)
              ELSE Unseen(registered[ip])]

----------------------------------------------------------------------------
(* Collector: services/ssh_manager.py *)

\* what the probes of one collection report, after parsing
Reading(cpu, mem, disks) == [cpu |-> cpu, memory |-> mem, disks |-> disks]

Readings ==
    {Reading(50, 50, <<DiskMetrics(50)>>),
     Reading(95, 50, <<DiskMetrics(50)>>),
     Reading(50, 50, <<DiskMetrics(96)>>)}

Mut_IsDegraded(cpu, mem, disks) ==
    cpu > 95 \/ mem > 90 \/ \E i \in 1..Len(disks) : disks[i].usage_percent > 95

\* the rule of _collect_sync lines 135-139
IsDegraded(cpu, mem, disks) ==
    cpu > 90 \/ mem > 90 \/ \E i \in 1..Len(disks) : disks[i].usage_percent > 95

Mut_CollectFailed(m, now) == [m EXCEPT !.status = OFFLINE, !.last_scan = now]

\* _collect_sync when no client could be obtained
CollectFailed(m, now) ==
    [m EXCEPT !.status = IF @ = UNKNOWN THEN OFFLINE ELSE @,
              !.last_scan = now]

Mut_CollectOk(m, r, now) ==
    [m EXCEPT !.status = IF IsDegraded(r.cpu, r.memory, r.disks) \/ @ = DEGRADED
                           THEN DEGRADED ELSE ONLINE,
              !.last_scan = now, !.last_seen = now,
              !.cpu = CpuMetrics(r.cpu), !.memory = MemoryMetrics(r.memory),
              !.disks = r.disks]

\* _collect_sync with a session: every metric replaced, status recomputed
CollectOk(m, r, now) ==
    [m EXCEPT !.status = IF IsDegraded(r.cpu, r.memory, r.disks)
                           THEN DEGRADED ELSE ONLINE,
              !.last_scan = now, !.last_seen = now,
              !.cpu = CpuMetrics(r.cpu), !.memory = MemoryMetrics(r.memory),
              !.disks = r.disks]

CollectSync(m, ok, r, now) ==
    IF ok THEN CollectOk(m, r, now) ELSE CollectFailed(m, now)

----------------------------------------------------------------------------
(* Scheduler and the HTTP operations on the inventory.                     *)
(* Machine objects are shared by reference: a collect_metrics task works   *)
(* on the object the inventory held when the cycle started. tasks[ip].held *)
(* says whether that object is still the one in the inventory; when it is  *)
(* not (the entry was replaced or removed meanwhile) tasks[ip].rec is the  *)
(* task's own object.                                                      *)

NoRec == [ip |-> ""]

NewTask == [done |-> FALSE, ok |-> FALSE, exc |-> FALSE, held |-> TRUE, rec |-> NoRec]

\* the object a task works on
TaskObj(ip) == IF tasks[ip].held THEN machines[ip] ELSE tasks[ip].rec

\* the inventory entry of ip is about to be replaced or removed: a task that
\* works on the object keeps it
Detached(ip) ==
    IF ip \in DOMAIN tasks /\ tasks[ip].held
      THEN [tasks EXCEPT ![ip].held = FALSE, ![ip].rec = machines[ip]]
      ELSE tasks

\* the machines a collection cycle collects (scheduler.py:94)
Eligible(machs) ==
    {ip \in DOMAIN machs : machs[ip].status # OFFLINE \/ machs[ip].last_scan = 0}

\* _network_scan_loop, one tick (also POST /api/machines/scan): the ping
\* sweep finds the hosts of the subnet that answer, then the inventory is
\* reconciled
NetworkScanTick ==
    /\ machines' = Reconciled(machines, reachable \cap subnet, clock)
    /\ marked' = DOMAIN machines \ (reachable \cap subnet)
    /\ UNCHANGED <<subnet, tasks, collecting, all_new_alerts, reachable, ssh_up,
                   adds, cycle_marked, alertVars, wsVars,
                   sshVars, newVars>>

\* _metrics_collection_loop, start of a cycle: one collect_metrics task per
\* eligible machine; with none the cycle is over at once
MetricsStart ==
    /\ ~collecting
    /\ Len(emitted) < MaxCreated
    /\ LET eligible == Eligible(machines) IN
         /\ tasks' = [ip \in eligible |-> NewTask]
         /\ collecting' = (eligible # {})
         /\ all_new_alerts' = IF eligible = {} THEN <<>> ELSE all_new_alerts
    /\ cycle_marked' = marked
    /\ marked' = {}
    /\ UNCHANGED <<subnet, machines, reachable, ssh_up, adds, alertVars, wsVars,
                   sshVars, newVars>>

\* one task's _collect_sync, run in the executor on the task's object
Worker(ip) ==
    /\ collecting
    /\ ip \in DOMAIN tasks
    /\ ~tasks[ip].done
    /\ \E r \in Readings :
         LET ok == ip \in ssh_up
             got == CollectSync(TaskObj(ip), ok, r, clock)
         IN IF tasks[ip].held
              THEN /\ machines' = [machines EXCEPT ![ip] = got]
                   /\ tasks' = [tasks EXCEPT ![ip].done = TRUE, ![ip].ok = ok]
              ELSE /\ machines' = machines
                   /\ tasks' = [tasks EXCEPT ![ip].done = TRUE, ![ip].ok = ok,
                                             ![ip].rec = got]
    /\ UNCHANGED <<subnet, collecting, all_new_alerts, reachable, ssh_up, adds,
                   marked, cycle_marked, alertVars, wsVars,
                   sshVars, newVars>>

\* _collect_sync left by an exception: either the executor refused the call
\* and the object is untouched, or a probe after the metrics raised (lines
\* 129-132), with lines 104-126 done and the status rule not reached
CollectRaised(m, late, r, now) ==
    IF late
      THEN [m EXCEPT !.status = ONLINE, !.last_scan = now, !.last_seen = now,
                     !.cpu = CpuMetrics(r.cpu), !.memory = MemoryMetrics(r.memory),
                     !.disks = r.disks]
      ELSE m

\* one task's collect_metrics ends with an exception, which the gather
\* returns in place of a Machine
WorkerRaises(ip) ==
    /\ collecting
    /\ ip \in DOMAIN tasks
    /\ ~tasks[ip].done
    /\ \E r \in Readings, late \in {FALSE, (ip \in ssh_up)} :
         LET got == CollectRaised(TaskObj(ip), late, r, clock)
         IN IF tasks[ip].held
              THEN /\ machines' = [machines EXCEPT ![ip] = got]
                   /\ tasks' = [tasks EXCEPT ![ip].done = TRUE, ![ip].exc = TRUE]
              ELSE /\ machines' = machines
                   /\ tasks' = [tasks EXCEPT ![ip].done = TRUE, ![ip].exc = TRUE,
                                             ![ip].rec = got]
    /\ UNCHANGED <<subnet, collecting, all_new_alerts, reachable, ssh_up, adds,
                   marked, cycle_marked, alertVars, wsVars, sshVars, newVars>>

Mut_Returned == DOMAIN tasks

\* the tasks of the cycle that returned a Machine
Returned == {ip \in DOMAIN tasks : ~tasks[ip].exc}

\* the results of the cycle that are not exceptions, in task order
RECURSIVE Results(_)
Results(order) ==
    IF order = <<>> THEN <<>>
    ELSE (IF Head(order) \in Returned THEN <<TaskObj(Head(order))>> ELSE <<>>)
         \o Results(Tail(order))

\* check_machine over the results: all_new_alerts
RECURSIVE AllNewAlerts(_, _)
AllNewAlerts(results, now) ==
    IF results = <<>> THEN <<>>
    ELSE CheckAlerts(Head(results), now) \o AllNewAlerts(Tail(results), now)

\* the history after check_machine has run over the results
RECURSIVE ExtendedByAll(_, _, _)
ExtendedByAll(hist, results, now) ==
    IF results = <<>> THEN hist
    ELSE ExtendedByAll(Extended(hist, CheckAlerts(Head(results), now)),
                       Tail(results), now)

\* _metrics_collection_loop after the gather: every result is written back
\* under its ip, then every result is evaluated
MetricsFinish ==
    /\ collecting
    /\ \A ip \in DOMAIN tasks : tasks[ip].done
    /\ LET results == Results(HostOrder) IN
         /\ machines' = [ip \in DOMAIN machines \cup Returned |->
                            IF ip \in Returned THEN TaskObj(ip) ELSE machines[ip]]
         /\ alerts' = ExtendedByAll(alerts, results, clock)
         /\ all_new_alerts' = AllNewAlerts(results, clock)
         /\ emitted' = emitted \o AllNewAlerts(results, clock)
         /\ new_alerts' = IF results = <<>> THEN new_alerts
                          ELSE CheckAlerts(results[Len(results)], clock)
    /\ tasks' = EmptyMap
    /\ collecting' = FALSE
    /\ ack_call' = NoCall
    /\ UNCHANGED <<subnet, reachable, ssh_up, adds, marked, cycle_marked,
                   evals, arg, clock, wsVars, sshVars, newVars>>

\* the bodies POST /api/machines is given
AddInputs ==
    {Machine(ip, st, c, 0, <<>>, 0, 0, FALSE) :
        ip \in subnet, st \in MachineStatus, c \in {0}}

\* add_machine(machine): the entry is set to the object given
AddMachine(m) ==
    /\ adds < MaxAdds
    /\ adds' = adds + 1
    /\ tasks' = Detached(m.ip)
    /\ machines' = Put(machines, m.ip, m)
    /\ marked' = marked \ {m.ip}
    /\ cycle_marked' = cycle_marked \ {m.ip}
    /\ UNCHANGED <<subnet, collecting, all_new_alerts, reachable, ssh_up,
                   alertVars, wsVars,
                   sshVars, newVars>>

\* DELETE /api/machines/{ip}: 404 unless known, else remove_machine(ip)
RemoveMachine(ip) ==
    /\ ip \in DOMAIN machines
    /\ tasks' = Detached(ip)
    /\ machines' = Drop(machines, ip)
    /\ marked' = marked \ {ip}
    /\ cycle_marked' = cycle_marked \ {ip}
    /\ UNCHANGED <<subnet, collecting, all_new_alerts, reachable, ssh_up, adds,
                   alertVars, wsVars,
                   sshVars, newVars>>

\* POST /api/machines/{ip}/refresh: collect the inventory's object, write it back
RefreshMachine(ip) ==
    /\ ip \in DOMAIN machines
    /\ \E r \in Readings :
         machines' = [machines EXCEPT
                        ![ip] = CollectSync(machines[ip], ip \in ssh_up, r, clock)]
    /\ marked' = marked \ {ip}
    /\ cycle_marked' = cycle_marked \ {ip}
    /\ UNCHANGED <<subnet, tasks, collecting, all_new_alerts, reachable, ssh_up,
                   adds, alertVars, wsVars,
                   sshVars, newVars>>

\* the environment: a host starts or stops answering pings, or SSH
PingChanges(ip) ==
    /\ reachable' = IF ip \in reachable THEN reachable \ {ip} ELSE reachable \cup {ip}
    /\ UNCHANGED <<subnet, machines, tasks, collecting, all_new_alerts, ssh_up,
                   adds, marked, cycle_marked, alertVars, wsVars,
                   sshVars, newVars>>

SshChanges(ip) ==
    /\ ssh_up' = IF ip \in ssh_up THEN ssh_up \ {ip} ELSE ssh_up \cup {ip}
    /\ UNCHANGED <<subnet, machines, tasks, collecting, all_new_alerts, reachable,
                   adds, marked, cycle_marked, alertVars, wsVars,
                   sshVars, newVars>>

\* a second passes
Tick ==
    /\ clock < 1 + MaxClock
    /\ clock' = clock + 1
    /\ ack_call' = NoCall
    /\ UNCHANGED <<alerts, new_alerts, emitted, evals, arg, pipeVars, wsVars, sshVars, newVars>>

\* no dashboard client is connected and nothing is being broadcast
NoPublish ==
    [active |-> FALSE, idx |-> 0, cur |-> "", disconnected |-> <<>>, got |-> <<>>,
     start |-> <<>>, whole |-> {}, quiet |-> TRUE]

WsIdle ==
    /\ connections = <<>>
    /\ pub = NoPublish
    /\ stalled = {}

\* SSHManager as constructed: the configured key, no cached session
SshIdle ==
    /\ key_path = "key_a"
    /\ ssh_connections = EmptyMap
    /\ pending = EmptyMap

\* TaskScheduler as constructed with the default interval, never started
NoLoops == [a \in {"scan", "metrics", "github"} |-> "none"]
NoLog == [a \in {"scan", "metrics", "github"} |-> <<>>]

SchedIdle ==
    /\ running = FALSE
    /\ scan_interval = 60
    /\ loops = NoLoops
    /\ tick_log = NoLog

\* no Machine is on its way to a subscriber
NoTrip == [stage |-> "none"]

TripIdle == trip = NoTrip

\* no _collect_sync call is in flight
SyncIdle == sync = EmptyMap

\* SSHManager as constructed, seen session by session: no client was ever
\* made and no _get_client call is running
Callers == {"cycle", "refresh"}
NoCalls == [c \in Callers |-> [pc |-> "idle"]]

ConnIdle ==
    /\ sessions = <<>>
    /\ cache = EmptyMap
    /\ calls = NoCalls
    /\ closed_all = FALSE

\* BackgroundScheduler as constructed: _tasks is empty
LifeIdle ==
    /\ live_tasks = EmptyMap
    /\ tracked_tasks = {}
    /\ starts = 0

NoProbe == [stage |-> "none"]

MoreIdle ==
    /\ ConnIdle
    /\ LifeIdle
    /\ probe = NoProbe

\* construction: the inventory holds the machines of the static configuration
Init ==
    /\ subnet = SingleHost
    /\ \E configured \in SUBSET subnet :
         machines = [ip \in configured |-> ConfiguredMachine(ip)]
    /\ tasks = EmptyMap
    /\ collecting = FALSE
    /\ all_new_alerts = <<>>
    /\ reachable = {}
    /\ ssh_up = {}
    /\ adds = 0
    /\ marked = {}
    /\ cycle_marked = {}
    /\ alerts = <<>>
    /\ emitted = <<>>
    /\ new_alerts = <<>>
    /\ ack_call = NoCall
    /\ evals = 0
    /\ arg = ConfiguredMachine("192.168.44.1")
    /\ clock = 1
    /\ WsIdle
    /\ SshIdle
    /\ MoreIdle
    /\ SchedIdle
    /\ TripIdle
    /\ SyncIdle

Work == \E ip \in subnet : Worker(ip)
Add == \E m \in AddInputs : AddMachine(m)
Remove == \E ip \in subnet : RemoveMachine(ip)
Refresh == \E ip \in subnet : RefreshMachine(ip)
Environment == \E ip \in subnet : PingChanges(ip) \/ SshChanges(ip)

Next ==
    \/ NetworkScanTick
    \/ MetricsStart
    \/ Work
    \/ MetricsFinish
    \/ Add
    \/ Remove
    \/ Refresh
    \/ Environment

Spec == Init /\ [][Next]_vars

\* the scheduler alone, on an inventory that starts empty (no static
\* configuration): its two loops run for ever, each executor task completes
FairInit ==
    /\ subnet = SingleHost
    /\ machines = EmptyMap
    /\ tasks = EmptyMap
    /\ collecting = FALSE
    /\ all_new_alerts = <<>>
    /\ reachable = {}
    /\ ssh_up = {}
    /\ adds = 0
    /\ marked = {}
    /\ cycle_marked = {}
    /\ alerts = <<>>
    /\ emitted = <<>>
    /\ new_alerts = <<>>
    /\ ack_call = NoCall
    /\ evals = 0
    /\ arg = ConfiguredMachine("192.168.44.1")
    /\ clock = 1
    /\ WsIdle
    /\ SshIdle
    /\ MoreIdle
    /\ SchedIdle
    /\ TripIdle
    /\ SyncIdle

FairNext ==
    \/ NetworkScanTick
    \/ MetricsStart
    \/ Work
    \/ MetricsFinish
    \/ Environment

\* discovery alone, on a subnet of two hosts. The inventory it finds holds,
\* for each host, nothing or a record left by earlier operation a second
\* before: configured and never probed, discovered, collected (healthy or
\* degraded), or collected and then marked OFFLINE.
KnownRecords(ip) ==
    LET found == SeenOne(DiscoveredMachine(ip, 1), 1)
        healthy == CollectOk(found, Reading(50, 50, <<DiskMetrics(50)>>), 1)
        loaded == CollectOk(found, Reading(95, 50, <<DiskMetrics(50)>>), 1)
    IN {ConfiguredMachine(ip), found, healthy, loaded, Unseen(healthy)}

DiscoveryInit ==
    /\ subnet = Hosts
    /\ \E known \in SUBSET Hosts :
         machines \in {f \in [known -> UNION {KnownRecords(ip) : ip \in known}] :
                          \A ip \in known : f[ip].ip = ip}
    /\ tasks = EmptyMap
    /\ collecting = FALSE
    /\ all_new_alerts = <<>>
    /\ reachable = {}
    /\ ssh_up = {}
    /\ adds = 0
    /\ marked = {}
    /\ cycle_marked = {}
    /\ alerts = <<>>
    /\ emitted = <<>>
    /\ new_alerts = <<>>
    /\ ack_call = NoCall
    /\ evals = 0
    /\ arg = ConfiguredMachine("192.168.44.1")
    /\ clock = 2
    /\ WsIdle
    /\ SshIdle
    /\ MoreIdle
    /\ SchedIdle
    /\ TripIdle
    /\ SyncIdle

DiscoveryNext ==
    \/ NetworkScanTick
    \/ Environment

DiscoverySpec == DiscoveryInit /\ [][DiscoveryNext]_vars

FairSpec ==
    /\ FairInit
    /\ [][FairNext]_vars
    /\ WF_vars(NetworkScanTick)
    /\ WF_vars(MetricsStart)
    /\ WF_vars(Work)
    /\ WF_vars(MetricsFinish)

----------------------------------------------------------------------------
(* The alert service driven directly: evaluate, acknowledge, clear *)

EvalHost == "192.168.44.1"

NeverIssued == <<EvalHost, "cpu", 0>>

\* ids handed to acknowledge_alert: the oldest alert appended since the last
\* clear (trimmed away or not), the last one check_machine returned (cleared
\* away or not), and one never issued
AckIds ==
    (IF new_alerts = <<>> THEN {} ELSE {new_alerts[Len(new_alerts)].id})
    \cup (IF emitted = <<>> THEN {} ELSE {emitted[1].id})
    \cup {NeverIssued}

\* check_machine(arg), called on the service
CheckMachine ==
    /\ evals < MaxEvals
    /\ LET fresh == CheckAlerts(arg, clock) IN
         /\ alerts' = Extended(alerts, fresh)
         /\ new_alerts' = fresh
         /\ emitted' = emitted \o fresh
    /\ evals' = evals + 1
    /\ ack_call' = NoCall
    /\ UNCHANGED <<arg, clock, pipeVars, wsVars, sshVars, newVars>>

\* acknowledge_alert(id)
AcknowledgeAlert(id) ==
    /\ alerts' = Acknowledged(alerts, id)
    /\ ack_call' = [id |-> id, ret |-> AckReturn(alerts, id), made |-> TRUE,
                    again |-> \E i \in 1..Len(alerts) :
                                 alerts[i].id = id /\ alerts[i].acknowledged]
    /\ UNCHANGED <<new_alerts, emitted, evals, arg, clock, pipeVars, wsVars, sshVars, newVars>>

Acknowledge == \E id \in AckIds : AcknowledgeAlert(id)

\* clear_alerts()
ClearAlerts ==
    /\ alerts # <<>>
    /\ alerts' = <<>>
    /\ emitted' = <<>>
    /\ ack_call' = NoCall
    /\ UNCHANGED <<new_alerts, evals, arg, clock, pipeVars, wsVars, sshVars, newVars>>

\* machines handed to check_machine: each reading below, at and above its
\* thresholds, one disk or two, every status
EvalPercents == {50, 85, 95}
EvalDisks ==
    {<<DiskMetrics(0)>>, <<DiskMetrics(85)>>, <<DiskMetrics(95), DiskMetrics(85)>>,
     <<DiskMetrics(96), DiskMetrics(96)>>}
EvalInputs ==
    {Machine(ip, st, c, m, d, 0, 0, FALSE) :
        ip \in {EvalHost}, st \in MachineStatus,
        c \in EvalPercents, m \in EvalPercents, d \in EvalDisks}

\* a history of n alerts left by earlier evaluations of an offline machine,
\* one per second before the clock starts
PastAlerts(n) ==
    [i \in 1..n |-> create_alert(CRITICAL, "192.168.44.2", "status", 0, 0, i - n)]

PipeIdle ==
    /\ subnet = SingleHost
    /\ machines = EmptyMap
    /\ tasks = EmptyMap
    /\ collecting = FALSE
    /\ all_new_alerts = <<>>
    /\ reachable = {}
    /\ ssh_up = {}
    /\ adds = 0
    /\ marked = {}
    /\ cycle_marked = {}

\* the machines evaluated while the history is exercised
HistoryInputs ==
    {m \in EvalInputs :
        /\ m.cpu.usage_percent = 95
        /\ m.memory.usage_percent = 50 /\ m.status = ONLINE}

\* the history is empty, or near its cap after earlier evaluations
AlertInit ==
    /\ arg \in HistoryInputs
    /\ \E n \in {0} \cup ((max_alerts - NearFull)..max_alerts) :
         /\ alerts = PastAlerts(n)
         /\ emitted = PastAlerts(n)
    /\ new_alerts = <<>>
    /\ ack_call = NoCall
    /\ evals = 0
    /\ clock = 1
    /\ PipeIdle
    /\ WsIdle
    /\ SshIdle
    /\ MoreIdle
    /\ SchedIdle
    /\ TripIdle
    /\ SyncIdle

AlertNext == CheckMachine \/ Acknowledge \/ ClearAlerts \/ Tick

AlertSpec == AlertInit /\ [][AlertNext]_vars

\* check_machine as a function of the machine: every input, evaluated from
\* an empty history
EvalInit ==
    /\ arg \in EvalInputs
    /\ alerts = <<>>
    /\ emitted = <<>>
    /\ new_alerts = <<>>
    /\ ack_call = NoCall
    /\ evals = 0
    /\ clock = 1
    /\ PipeIdle
    /\ WsIdle
    /\ SshIdle
    /\ MoreIdle
    /\ SchedIdle
    /\ TripIdle
    /\ SyncIdle

EvalNext == CheckMachine \/ Tick

EvalSpec == EvalInit /\ [][EvalNext]_vars

----------------------------------------------------------------------------
(* Claims about the alert service, checked under AlertSpec and EvalSpec *)

Unacked(s) == [i \in 1..Len(s) |-> [s[i] EXCEPT !.acknowledged = FALSE]]

LastOf(s, n) == IF Len(s) > n THEN SubSeq(s, Len(s) - n + 1, Len(s)) ELSE s

\* C1: every machine of the inventory whose status is DEGRADED has, in the
\* metrics stored on its record, cpu above 90, memory above 90 or a disk
\* above 95
C1_DegradedHasBreach ==
    \A ip \in DOMAIN machines :
        machines[ip].status = DEGRADED
            => IsDegraded(machines[ip].cpu.usage_percent,
                          machines[ip].memory.usage_percent,
                          machines[ip].disks)

\* C2: the history never holds more than 200 alerts, and it is always the
\* most recent 200 (or all, while there are fewer) of the alerts appended
\* since the last clear, in creation order; acknowledging reorders nothing.
C2_HistoryIsLast200 ==
    /\ Len(alerts) <= max_alerts
    /\ Unacked(alerts) = LastOf(emitted, max_alerts)

C2_Witness ==
    /\ Len(emitted) > max_alerts
    /\ Len(alerts) = max_alerts
    /\ evals > 0

\* the alerts of one metric in a returned list, in order
OfMetric(s, metric) == SelectSeq(s, LAMBDA a : a.metric = metric)

\* a machine the scheduler can reach again: it answers pings and accepts SSH
Recoverable(ip) ==
    /\ ip \in DOMAIN machines
    /\ machines[ip].status = OFFLINE
    /\ ip \in reachable
    /\ ip \in ssh_up

\* the machine is back up, or the premise has gone, or the model's budget of
\* alerts is used up and no further cycle starts
Recovered(ip) ==
    \/ ip \notin DOMAIN machines
    \/ machines[ip].status \in {ONLINE, DEGRADED}
    \/ ip \notin reachable
    \/ ip \notin ssh_up
    \/ Len(emitted) >= MaxCreated

\* C3: a machine marked OFFLINE by discovery that answers pings and accepts
\* SSH again is eventually ONLINE or DEGRADED again, the scheduler running
C3_OfflineRecovers ==
    \A ip \in Hosts : [](Recoverable(ip) => <>Recovered(ip))

\* the unreachable alerts for ip among s
StatusAlertsFor(s, ip) ==
    {i \in 1..Len(s) :
        s[i].machine_ip = ip /\ s[i].metric = "status" /\ s[i].severity = CRITICAL}

\* C4: the collection cycle that follows a discovery which marked a known
\* machine OFFLINE emits exactly one CRITICAL status alert for that machine
C4_OfflineAlertedOnce ==
    [][/\ MetricsFinish =>
            \A ip \in cycle_marked :
                (ip \in DOMAIN machines' /\ machines'[ip].status = OFFLINE)
                    => Cardinality(StatusAlertsFor(all_new_alerts', ip)) = 1
       /\ (MetricsStart /\ Eligible(machines) = {}) =>
            \A ip \in marked :
                (ip \in DOMAIN machines /\ machines[ip].status = OFFLINE)
                    => Cardinality(StatusAlertsFor(all_new_alerts', ip)) = 1]_vars

\* C5 (as claimed): evaluating a machine whose status is OFFLINE returns
\* exactly one alert, the CRITICAL status alert, whatever metrics it carries.
C5_OfflineYieldsOnlyStatus ==
    (evals > 0 /\ arg.status = OFFLINE) =>
        /\ Len(new_alerts) = 1
        /\ new_alerts[1].severity = CRITICAL
        /\ new_alerts[1].metric = "status"

\* what one reading must produce: nothing below warn, one WARNING from warn
\* up to crit, one CRITICAL from crit on
ExpectedLevels(value, warn, crit) ==
    IF value >= crit THEN <<CRITICAL>>
    ELSE IF value >= warn THEN <<WARNING>> ELSE <<>>

RECURSIVE ExpectedDiskLevels(_)
ExpectedDiskLevels(disks) ==
    IF disks = <<>> THEN <<>>
    ELSE ExpectedLevels(Head(disks).usage_percent, 85, 95)
         \o ExpectedDiskLevels(Tail(disks))

Severities(s) == [i \in 1..Len(s) |-> s[i].severity]

\* the object a task of ip works on, after the step
TaskObjAfter(ip) == IF tasks'[ip].held THEN machines'[ip] ELSE tasks'[ip].rec

\* cpu at or above its CRITICAL threshold, memory and every disk below their
\* WARNING thresholds
CpuAloneCritical(m) ==
    /\ m.cpu.usage_percent >= THRESHOLDS.cpu_critical
    /\ m.memory.usage_percent < THRESHOLDS.memory_warning
    /\ \A i \in 1..Len(m.disks) :
           m.disks[i].usage_percent < THRESHOLDS.disk_warning

\* C6: a successful collection that reads cpu at or above the CRITICAL
\* threshold, memory and disks below WARNING, leaves the machine DEGRADED,
\* and evaluating it returns exactly one alert: CRITICAL, metric cpu
C6_CpuBreachDegradedOneAlert ==
    [][\A ip \in Hosts :
          (Worker(ip) /\ ip \in ssh_up /\ CpuAloneCritical(TaskObjAfter(ip)))
              => /\ TaskObjAfter(ip).status = DEGRADED
                 /\ LET got == CheckAlerts(TaskObjAfter(ip), clock) IN
                      /\ Len(got) = 1
                      /\ got[1].severity = CRITICAL
                      /\ got[1].metric = "cpu"
                      /\ got[1].machine_ip = ip]_vars

\* a cycle has collected such a reading and evaluated it
C6_Witness ==
    \E ip \in DOMAIN machines :
        /\ ~collecting
        /\ CpuAloneCritical(machines[ip])
        /\ machines[ip].status = DEGRADED
        /\ machines[ip].last_scan # 0
        /\ Len(all_new_alerts) = 1
        /\ all_new_alerts[1].severity = CRITICAL
        /\ all_new_alerts[1].metric = "cpu"
        /\ all_new_alerts[1].machine_ip = ip

\* C7: one evaluation emits, for each reading, at most one alert and it has
\* the highest severity breached: CRITICAL alone from the critical threshold
\* on, WARNING alone from the warning threshold up to it, nothing below.
C7_HighestSeverityOnly ==
    evals > 0 =>
        /\ Severities(OfMetric(new_alerts, "cpu"))
             = ExpectedLevels(arg.cpu.usage_percent, 80, 95)
        /\ Severities(OfMetric(new_alerts, "memory"))
             = ExpectedLevels(arg.memory.usage_percent, 85, 95)
        /\ Severities(OfMetric(new_alerts, "disk"))
             = ExpectedDiskLevels(arg.disks)

C7_Witness ==
    /\ evals > 0
    /\ arg.cpu.usage_percent >= 95
    /\ arg.memory.usage_percent = 85
    /\ Len(arg.disks) = 2
    /\ Len(OfMetric(new_alerts, "disk")) = 2

\* C8 (as claimed): no two alerts of the history share an id.
C8_UniqueIds ==
    \A i, j \in 1..Len(alerts) : i # j => alerts[i].id # alerts[j].id

\* C9: acknowledging an id of the history returns true and leaves the alert
\* it addresses acknowledged, changes no other alert and no other field, and
\* a further acknowledge of the same id returns true and changes nothing.
C9_AcknowledgeIdempotent ==
    [][\A id \in AckIds :
        (AcknowledgeAlert(id) /\ FirstWithId(alerts, id) # 0) =>
            LET i == FirstWithId(alerts, id) IN
            /\ ack_call'.ret = TRUE
            /\ Len(alerts') = Len(alerts)
            /\ alerts'[i] = [alerts[i] EXCEPT !.acknowledged = TRUE]
            /\ \A j \in 1..Len(alerts) : j # i => alerts'[j] = alerts[j]
            /\ AckReturn(alerts', id) = TRUE
            /\ Acknowledged(alerts', id) = alerts']_vars

C9_Witness ==
    /\ ack_call.made /\ ack_call.ret /\ ack_call.again
    /\ \E i \in 1..Len(alerts) :
         alerts[i].id = ack_call.id /\ alerts[i].acknowledged

\* C10: acknowledging an id that is not in the history returns false and
\* leaves the history, every acknowledged flag included, as it was.
C10_UnknownIdRefused ==
    [][\A id \in AckIds :
        (AcknowledgeAlert(id) /\ FirstWithId(alerts, id) = 0) =>
            /\ ack_call'.ret = FALSE
            /\ alerts' = alerts]_vars

\* an id that was issued and has been trimmed away is refused
C10_Witness ==
    /\ ack_call.made /\ ~ack_call.ret
    /\ Len(emitted) > max_alerts
    /\ ack_call.id = emitted[1].id
    /\ alerts # <<>>

----------------------------------------------------------------------------
(* Discovery reconciliation *)

\* the reachable set a discovery run finds
Discovered == reachable \cap subnet

\* C11: a reconciliation run again with the same reachable set registers no
\* machine and leaves the set of inventory keys as it is
C11_ReconcileIdempotent ==
    [][NetworkScanTick =>
          /\ NewMachines(machines', DiscoveredIps(Discovered)) = <<>>
          /\ DOMAIN Reconciled(machines', Discovered, clock) = DOMAIN machines']_vars

\* a run has registered a machine, and a run from here registers none
C11_Witness ==
    /\ \E ip \in DOMAIN machines :
          /\ machines[ip].auto_discovered
          /\ machines[ip].last_seen = clock
          /\ machines[ip].last_scan = 0
    /\ Discovered # {}
    /\ NewMachines(machines, DiscoveredIps(Discovered)) = <<>>
    /\ Reconciled(machines, Discovered, clock) = machines

\* the elements of a sequence
Range(s) == {s[i] : i \in 1..Len(s)}

\* C12: every reachable address not in the inventory gets one machine keyed
\* by it, ONLINE, auto_discovered, last_seen set; the machines returned as
\* new are exactly those addresses
C12_NewMachinesRegistered ==
    [][NetworkScanTick =>
          LET fresh == Discovered \ DOMAIN machines
              ret == NewMachines(machines, DiscoveredIps(Discovered))
          IN /\ Range(ret) = fresh
             /\ Len(ret) = Cardinality(fresh)
             /\ DOMAIN machines' = DOMAIN machines \cup fresh
             /\ \A ip \in fresh :
                   /\ machines'[ip].ip = ip
                   /\ machines'[ip].status = ONLINE
                   /\ machines'[ip].auto_discovered
                   /\ machines'[ip].last_seen = clock
                   /\ machines'[ip].last_seen # 0]_vars

\* both hosts of the subnet were registered by one run
C12_Witness ==
    /\ DOMAIN machines = Hosts
    /\ \A ip \in Hosts :
          /\ machines[ip].status = ONLINE
          /\ machines[ip].auto_discovered
          /\ machines[ip].last_seen = clock
          /\ machines[ip].last_scan = 0

\* C13: after a reconciliation every machine that was known and did not
\* answer is OFFLINE, whatever its status was
C13_UnseenIsOffline ==
    [][NetworkScanTick =>
          \A ip \in DOMAIN machines \ Discovered :
              /\ ip \in DOMAIN machines'
              /\ machines'[ip].status = OFFLINE]_vars

\* a degraded machine was marked OFFLINE by the last run
C13_Witness ==
    \E ip \in marked :
        /\ ip \in DOMAIN machines
        /\ machines[ip].status = OFFLINE
        /\ machines[ip].cpu.usage_percent = 95

\* C14: for a known machine that answered, a reconciliation changes status
\* only from UNKNOWN to ONLINE and, besides, only last_seen
C14_SeenKeepsRecord ==
    [][NetworkScanTick =>
          \A ip \in DOMAIN machines \cap Discovered :
              LET old == machines[ip]
                  new == machines'[ip]
              IN /\ new.status = (IF old.status = UNKNOWN THEN ONLINE ELSE old.status)
                 /\ new.last_seen = clock
                 /\ new.ip = old.ip
                 /\ new.cpu = old.cpu
                 /\ new.memory = old.memory
                 /\ new.disks = old.disks
                 /\ new.last_scan = old.last_scan
                 /\ new.auto_discovered = old.auto_discovered]_vars

\* a machine that answered was seen by a run and is still OFFLINE
C14_Witness ==
    \E ip \in DOMAIN machines \cap Discovered :
        /\ machines[ip].status = OFFLINE
        /\ machines[ip].last_seen = clock
        /\ machines[ip].last_scan # 0

----------------------------------------------------------------------------
(* Broadcaster: services/websocket_manager.py, routers/websocket.py.       *)
(* broadcast is a coroutine: between the start of one send_text and its    *)
(* completion other coroutines run, among them connect and disconnect of   *)
(* the /ws endpoint, which change the list that broadcast is iterating.    *)

Clients == {"ws1", "ws2", "ws3"}

Mut_RemoveFirst(s, x) == s

\* list.remove(x): the first occurrence goes
RemoveFirst(s, x) ==
    LET hits == {i \in 1..Len(s) : s[i] = x} IN
    IF hits = {} THEN s
    ELSE LET k == CHOOSE i \in hits : \A j \in hits : i <= j
         IN SubSeq(s, 1, k - 1) \o SubSeq(s, k + 1, Len(s))

\* for ws in disconnected: self.disconnect(ws)
RECURSIVE Dropped(_, _)
Dropped(conns, disconnected) ==
    IF disconnected = <<>> THEN conns
    ELSE Dropped(RemoveFirst(conns, Head(disconnected)), Tail(disconnected))

\* the alert service and the pipeline at rest
AlertIdle ==
    /\ alerts = <<>>
    /\ emitted = <<>>
    /\ new_alerts = <<>>
    /\ ack_call = NoCall
    /\ evals = 0
    /\ arg = ConfiguredMachine("192.168.44.1")
    /\ clock = 1

\* connect(websocket), after the accept: the socket is appended
Connect(c) ==
    /\ c \notin {connections[i] : i \in 1..Len(connections)}
    /\ connections' = Append(connections, c)
    /\ pub' = IF pub.active THEN [pub EXCEPT !.quiet = FALSE] ELSE pub
    /\ UNCHANGED <<stalled, alertVars, pipeVars, sshVars, newVars>>

\* the endpoint's WebSocketDisconnect handler: disconnect(websocket)
Disconnect(c) ==
    /\ c \in {connections[i] : i \in 1..Len(connections)}
    /\ connections' = RemoveFirst(connections, c)
    /\ pub' = IF pub.active
                THEN [pub EXCEPT !.quiet = FALSE, !.whole = @ \ {c}]
                ELSE pub
    /\ UNCHANGED <<stalled, alertVars, pipeVars, sshVars, newVars>>

\* broadcast(data) up to its first await: nothing happens on an empty list,
\* else the iteration takes the first socket and starts its send_text
BroadcastStart ==
    /\ ~pub.active
    /\ connections # <<>>
    /\ pub' = [active |-> TRUE, idx |-> 1, cur |-> connections[1],
               disconnected |-> <<>>, got |-> <<>>, start |-> connections,
               whole |-> {connections[i] : i \in 1..Len(connections)},
               quiet |-> TRUE]
    /\ UNCHANGED <<connections, stalled, alertVars, pipeVars, sshVars, newVars>>

\* the send_text awaited completes, with the message delivered (ok) or with
\* an exception; the list iterator then yields the element at the next index
\* of the list as it is now and the next send starts, or the iteration is
\* over and the sockets that failed are disconnected
SendCompletes(ok) ==
    /\ pub.active
    /\ pub.cur \notin stalled
    /\ LET got == IF ok THEN Append(pub.got, pub.cur) ELSE pub.got
           failed == IF ok THEN pub.disconnected
                     ELSE Append(pub.disconnected, pub.cur)
       IN IF pub.idx + 1 <= Len(connections)
            THEN /\ pub' = [pub EXCEPT !.idx = @ + 1,
                                       !.cur = connections[pub.idx + 1],
                                       !.got = got, !.disconnected = failed]
                 /\ connections' = connections
            ELSE /\ pub' = [pub EXCEPT !.active = FALSE, !.cur = "",
                                       !.got = got, !.disconnected = failed]
                 /\ connections' = Dropped(connections, failed)
    /\ UNCHANGED <<stalled, alertVars, pipeVars, sshVars, newVars>>

WsConnect == \E c \in Clients : Connect(c)
WsDisconnect == \E c \in Clients : Disconnect(c)
SendDone == \E ok \in BOOLEAN : SendCompletes(ok)

\* no client yet; at most one socket whose sends never complete
WsInit ==
    /\ connections = <<>>
    /\ pub = NoPublish
    /\ stalled \in {{}} \cup {{c} : c \in Clients}
    /\ AlertIdle
    /\ PipeIdle
    /\ SshIdle
    /\ MoreIdle
    /\ SchedIdle
    /\ TripIdle
    /\ SyncIdle

WsNext ==
    \/ WsConnect
    \/ WsDisconnect
    \/ BroadcastStart
    \/ SendDone

WsSpec == WsInit /\ [][WsNext]_vars

\* a send that can complete does complete
WsFairSpec == WsInit /\ [][WsNext]_vars /\ WF_vars(SendDone)

\* how often x occurs in s
Count(s, x) == Cardinality({i \in 1..Len(s) : s[i] = x})

\* the step on which a broadcast returns
BroadcastReturns == pub.active /\ ~pub'.active

\* C15: a broadcast during which nobody connected or disconnected removes
\* exactly the sockets whose send failed, delivers once to every other
\* socket, tries no failed socket again, and leaves the count lower by the
\* number of failed sockets
C15_FailedSubscribersRemoved ==
    [][(BroadcastReturns /\ pub'.quiet) =>
          LET failed == Range(pub'.disconnected) IN
          /\ connections' = SelectSeq(pub'.start, LAMBDA c : c \notin failed)
          /\ \A c \in Range(pub'.start) \ failed : Count(pub'.got, c) = 1
          /\ \A c \in failed :
                Count(pub'.got, c) = 0 /\ Count(pub'.disconnected, c) = 1
          /\ Len(connections') = Len(pub'.start) - Cardinality(failed)]_vars

\* three subscribers, one failed: two deliveries, two subscribers left
C15_Witness ==
    /\ ~pub.active
    /\ pub.quiet
    /\ Len(pub.start) = 3
    /\ Len(pub.disconnected) = 1
    /\ Len(pub.got) = 2
    /\ Len(connections) = 2

\* C16: a broadcast delivers exactly once to every socket that was in the
\* list from its start to its end and whose send did not fail, also when
\* other sockets connect or disconnect meanwhile
C16_SteadySubscribersServedOnce ==
    [][BroadcastReturns =>
          \A c \in pub'.whole \ Range(pub'.disconnected) :
              Count(pub'.got, c) = 1]_vars

\* a socket of the broadcast in flight that has not been tried yet and whose
\* own send would complete
Waiting(c) ==
    /\ pub.active
    /\ c \in pub.whole
    /\ c \notin stalled
    /\ c # pub.cur
    /\ Count(pub.got, c) = 0
    /\ Count(pub.disconnected, c) = 0

\* C17: within a broadcast no socket's delivery waits for another's: a
\* socket whose send never completes does not keep the others waiting
C17_NoSubscriberWaitsForAnother ==
    \A c \in Clients : [](Waiting(c) => <>~Waiting(c))

----------------------------------------------------------------------------
(* Collection *)

\* C18: a collection does not change the inventory: the record the
\* inventory holds is as it was until the caller writes the result back
C18_CollectLeavesInventory ==
    [][Work => machines' = machines]_vars

\* what a collection without a session may do to a record
FailedCollectionOf(old, new) ==
    /\ new.status = (IF old.status = UNKNOWN THEN OFFLINE ELSE old.status)
    /\ new.cpu = old.cpu
    /\ new.memory = old.memory
    /\ new.disks = old.disks
    /\ new.last_scan = clock

\* C19: a collection that gets no session sets status OFFLINE only when it
\* was UNKNOWN, leaves any other status and the metrics as they were, and
\* sets last_scan in every case
C19_NoSessionKeepsStatus ==
    [][\A ip \in Hosts :
          /\ (Worker(ip) /\ ip \notin ssh_up)
                => FailedCollectionOf(TaskObj(ip), TaskObjAfter(ip))
          /\ (RefreshMachine(ip) /\ ip \notin ssh_up)
                => FailedCollectionOf(machines[ip], machines'[ip])]_vars

\* a task of the cycle in flight got no session for a degraded machine, which
\* is still DEGRADED, with its readings
C19_Witness ==
    \E ip \in DOMAIN tasks :
        /\ tasks[ip].done
        /\ ~tasks[ip].ok
        /\ TaskObj(ip).status = DEGRADED
        /\ TaskObj(ip).cpu.usage_percent = 95
        /\ TaskObj(ip).last_scan = clock

----------------------------------------------------------------------------
(* SessionCache: SSHManager._connections and _key_path.                    *)
(* _get_client runs in executor threads, apply_settings on the event loop. *)

Keys == {"key_a", "key_b"}

\* _get_client on a miss, up to the connect: the key is read from _key_path
GetClientBegin(ip) ==
    /\ ip \notin DOMAIN pending
    /\ ip \notin DOMAIN ssh_connections
    /\ pending' = Put(pending, ip, key_path)
    /\ UNCHANGED <<key_path, ssh_connections, alertVars, pipeVars, wsVars, newVars>>

\* _get_client from the connect on: the session made with the key read is
\* put in the cache, or the connect fails and nothing is cached
GetClientEnd(ip) ==
    /\ ip \in DOMAIN pending
    /\ ssh_connections' = IF ip \in ssh_up
                            THEN Put(ssh_connections, ip, pending[ip])
                            ELSE ssh_connections
    /\ pending' = Drop(pending, ip)
    /\ UNCHANGED <<key_path, alertVars, pipeVars, wsVars, newVars>>

\* _get_client finds the cached session's transport dead and deletes it
SessionLost(ip) ==
    /\ ip \in DOMAIN ssh_connections
    /\ ssh_connections' = Drop(ssh_connections, ip)
    /\ UNCHANGED <<key_path, pending, alertVars, pipeVars, wsVars, newVars>>

\* apply_settings(key_path): the key is replaced, then close_all empties
\* the cache
ApplySettings(k) ==
    /\ key_path' = k
    /\ ssh_connections' = EmptyMap
    /\ UNCHANGED <<pending, alertVars, pipeVars, wsVars, newVars>>

GetClientStarts == \E ip \in Hosts : GetClientBegin(ip)
GetClientEnds == \E ip \in Hosts : GetClientEnd(ip)
SessionDies == \E ip \in Hosts : SessionLost(ip)
SettingsApplied == \E k \in Keys : ApplySettings(k)
SshEnvironment == \E ip \in Hosts : SshChanges(ip)

SessionInit ==
    /\ SshIdle
    /\ MoreIdle
    /\ SchedIdle
    /\ TripIdle
    /\ SyncIdle
    /\ AlertIdle
    /\ PipeIdle
    /\ WsIdle

SessionNext ==
    \/ GetClientStarts
    \/ GetClientEnds
    \/ SessionDies
    \/ SettingsApplied
    \/ SshEnvironment

SessionSpec == SessionInit /\ [][SessionNext]_vars

\* C20: every cached session was made with the key that apply_settings set
\* last; none made with an earlier key stays in, or comes into, the cache
C20_CacheHoldsCurrentKeyOnly ==
    \A ip \in DOMAIN ssh_connections : ssh_connections[ip] = key_path


\* ---------------------------------------------------------------------
\* BackgroundScheduler: its state, and the control flow of its three loops.
\* Each loop task is followed from one await to the next; what the awaited
\* work returns (a result or an exception) is chosen freely.
\* ---------------------------------------------------------------------

Activities == {"scan", "metrics", "github"}

\* settings.scan_interval is an int with a default of 60 and no lower bound
ConfiguredIntervals == {5, 60}

\* the intervals PUT /api/settings/network and /api/settings/apply hand over
IntervalInputs == {0, 5, 30}

Max(a, b) == IF a >= b THEN a ELSE b

\* update_scan_interval(interval): the value the scheduler keeps
Mut_FlooredInterval(interval) == interval
FlooredInterval(interval) == Max(10, interval)

\* the first await of each loop task
FirstAwait == [a \in Activities |->
                 CASE a = "scan" -> "discover"
                   [] a = "metrics" -> "warmup"
                   [] a = "github" -> "sync"]

\* start(), called once by the lifespan of the application when it starts up
Start ==
    /\ ~running
    /\ running' = TRUE
    /\ loops' = FirstAwait
    /\ tick_log' = NoLog
    /\ UNCHANGED <<scan_interval, trip, sync, alertVars, pipeVars, wsVars, sshVars, moreVars>>

\* stop(): every task is cancelled; CancelledError is raised at the await a
\* task is suspended at and no handler of the loops catches it
Mut_Cancelled(pc) == IF pc = "sleep" THEN "none" ELSE pc
Cancelled(pc) == "none"

Stop ==
    /\ running
    /\ running' = FALSE
    /\ loops' = [a \in Activities |-> Cancelled(loops[a])]
    /\ UNCHANGED <<scan_interval, tick_log, trip, sync, alertVars, pipeVars, wsVars,
                   sshVars, moreVars>>

UpdateScanInterval(interval) ==
    /\ scan_interval' = FlooredInterval(interval)
    /\ UNCHANGED <<running, loops, tick_log, trip, sync, alertVars, pipeVars, wsVars,
                   sshVars, moreVars>>

\* a loop task goes on to its next await, having done `events`
Goes(a, pc, events) ==
    /\ loops' = [loops EXCEPT ![a] = pc]
    /\ tick_log' = [tick_log EXCEPT ![a] = tick_log[a] \o events]
    /\ UNCHANGED <<running, scan_interval, trip, sync, alertVars, pipeVars, wsVars,
                   sshVars, moreVars>>

\* `except Exception` of a loop: the error is logged and the loop goes to
\* its sleep
Mut_Caught(a) == Goes(a, "none", <<"error">>)
Caught(a) == Goes(a, "sleep", <<"error">>)

\* a loop task comes out of its sleep: `while self._running`, then the tick
\* begins
Begins(a, pc, events) ==
    /\ loops' = [loops EXCEPT ![a] = IF running THEN pc ELSE "none"]
    /\ tick_log' = [tick_log EXCEPT ![a] = IF running THEN events ELSE @]
    /\ UNCHANGED <<running, scan_interval, trip, sync, alertVars, pipeVars, wsVars,
                   sshVars, moreVars>>

\* _network_scan_loop
ScanWakes ==
    /\ loops["scan"] = "sleep"
    /\ Begins("scan", "discover", <<>>)

ScanDiscovered(out) ==
    /\ loops["scan"] = "discover"
    /\ CASE out = "error" -> Caught("scan")
         [] out = "new" -> Goes("scan", "send_new", <<"registered">>)
         [] out = "none" -> Goes("scan", "send_complete", <<>>)

ScanNewSent(ok) ==
    /\ loops["scan"] = "send_new"
    /\ IF ok THEN Goes("scan", "send_complete", <<"new_machines">>)
             ELSE Caught("scan")

ScanCompleteSent(ok) ==
    /\ loops["scan"] = "send_complete"
    /\ IF ok THEN Goes("scan", "sleep", <<"scan_complete">>)
             ELSE Caught("scan")

\* _metrics_collection_loop: with no eligible machine the tick is over at
\* once and the loop sleeps again
MetricsWakes(out) ==
    /\ loops["metrics"] \in {"warmup", "sleep"}
    /\ CASE out = "error" -> Begins("metrics", "sleep", <<"error">>)
         [] out = "idle" -> Begins("metrics", "sleep", <<>>)
         [] out = "some" -> Begins("metrics", "gather", <<>>)

\* the gather returns; the results are written back and evaluated
MetricsGathered(out) ==
    /\ loops["metrics"] = "gather"
    /\ CASE out = "error" -> Caught("metrics")
         [] out = "alerts" -> Goes("metrics", "send_alerts", <<"processed">>)
         [] out = "quiet" -> Goes("metrics", "send_metrics", <<"processed">>)

MetricsAlertsSent(ok) ==
    /\ loops["metrics"] = "send_alerts"
    /\ IF ok THEN Goes("metrics", "send_metrics", <<"alerts_update">>)
             ELSE Caught("metrics")

MetricsSent(ok) ==
    /\ loops["metrics"] = "send_metrics"
    /\ IF ok THEN Goes("metrics", "sleep", <<"metrics_update">>)
             ELSE Caught("metrics")

\* _github_sync_loop
GithubWakes ==
    /\ loops["github"] = "sleep"
    /\ Begins("github", "sync", <<>>)

GithubSynced(ok) ==
    /\ loops["github"] = "sync"
    /\ IF ok THEN Goes("github", "send_github", <<>>)
             ELSE Caught("github")

GithubSent(ok) ==
    /\ loops["github"] = "send_github"
    /\ IF ok THEN Goes("github", "sleep", <<"github_update">>)
             ELSE Caught("github")

\* the scheduler as constructed by the application
SchedulerInit ==
    /\ running = FALSE
    /\ scan_interval \in ConfiguredIntervals
    /\ loops = NoLoops
    /\ tick_log = NoLog
    /\ TripIdle
    /\ SyncIdle
    /\ AlertIdle
    /\ PipeIdle
    /\ WsIdle
    /\ SshIdle
    /\ MoreIdle

IntervalUpdated == \E interval \in IntervalInputs : UpdateScanInterval(interval)
ScanStep ==
    \/ ScanWakes
    \/ \E out \in {"error", "new", "none"} : ScanDiscovered(out)
    \/ \E ok \in BOOLEAN : ScanNewSent(ok) \/ ScanCompleteSent(ok)
MetricsStep ==
    \/ \E out \in {"error", "idle", "some"} : MetricsWakes(out)
    \/ \E out \in {"error", "alerts", "quiet"} : MetricsGathered(out)
    \/ \E ok \in BOOLEAN : MetricsAlertsSent(ok) \/ MetricsSent(ok)
GithubStep ==
    \/ GithubWakes
    \/ \E ok \in BOOLEAN : GithubSynced(ok) \/ GithubSent(ok)

SchedulerNext ==
    \/ Start
    \/ Stop
    \/ IntervalUpdated
    \/ ScanStep
    \/ MetricsStep
    \/ GithubStep

SchedulerSpec == SchedulerInit /\ [][SchedulerNext]_vars

\* C21: the interval the loops sleep for is never below 10 seconds, from
\* construction on and after every update_scan_interval
C21_IntervalNeverBelowTen == scan_interval >= 10

\* C22: once stop() has returned no loop task is left, whatever await each
\* was suspended at, and until start() is called again no tick begins and
\* no envelope is published
C22_StoppedIsSilent ==
    [][~running' => (loops' = NoLoops /\ tick_log' = tick_log)]_vars

\* stop() came while the scan loop was broadcasting new_machines, the metrics
\* loop was asleep after a full tick and the GitHub loop was in its sync
C22_Witness ==
    /\ ~running
    /\ tick_log["scan"] = <<"registered">>
    /\ tick_log["metrics"] = <<"processed", "alerts_update", "metrics_update">>
    /\ tick_log["github"] = <<>>

\* the event loop runs every task that can go on: a sleep ends, and the
\* awaited work returns or raises
SchedulerFairSpec ==
    /\ SchedulerInit
    /\ [][SchedulerNext]_vars
    /\ WF_vars(ScanStep)
    /\ WF_vars(MetricsStep)
    /\ WF_vars(GithubStep)

\* the last tick of activity a ended in an error and a is in its sleep
Erred(a) ==
    /\ loops[a] = "sleep"
    /\ tick_log[a] # <<>>
    /\ tick_log[a][Len(tick_log[a])] = "error"

\* a step in which the work of a's tick raises
Raises(a) ==
    /\ tick_log'[a] # tick_log[a]
    /\ tick_log'[a] # <<>>
    /\ tick_log'[a][Len(tick_log'[a])] = "error"

\* C27: an error raised by the work of a tick stays inside the activity: the
\* scheduler is still running, the activity is in the sleep that precedes its
\* next tick, the other activities are where they were, and unless the
\* scheduler is stopped the activity goes on to its next tick
C27_ErrorStaysInsideTick ==
    /\ [][\A a \in Activities :
            Raises(a) =>
              /\ running'
              /\ loops'[a] = "sleep"
              /\ \A b \in Activities \ {a} :
                   loops'[b] = loops[b] /\ tick_log'[b] = tick_log[b]]_vars
    /\ \A a \in Activities : [](Erred(a) => <>(~running \/ ~Erred(a)))

\* the discovery of a scan tick has raised while the other two loops are
\* about to broadcast
C27_Witness ==
    /\ running
    /\ Erred("scan")
    /\ tick_log["scan"] = <<"error">>
    /\ loops["metrics"] = "send_metrics"
    /\ loops["github"] = "send_github"

\* C28: a discovery tick that is over has published scan_complete and a
\* collection tick that is over has published metrics_update, whatever the
\* work of the tick did
C28_EveryTickPublishes ==
    /\ loops["scan"] = "sleep" => "scan_complete" \in Range(tick_log["scan"])
    /\ loops["metrics"] = "sleep" => "metrics_update" \in Range(tick_log["metrics"])

\* every y of the log has an x before it
Before(log, x, y) ==
    \A j \in DOMAIN log : log[j] = y => \E i \in 1..(j - 1) : log[i] = x

\* the envelopes of a tick come in the order of the loop bodies
EnvelopesInOrder ==
    /\ "registered" \in Range(tick_log["scan"]) =>
         Before(tick_log["scan"], "new_machines", "scan_complete")
    /\ Before(tick_log["metrics"], "processed", "metrics_update")
    /\ Before(tick_log["metrics"], "processed", "alerts_update")
    /\ Count(tick_log["metrics"], "metrics_update") <= 1
    /\ Count(tick_log["metrics"], "alerts_update") <= 1
    /\ \A j \in DOMAIN tick_log["metrics"] :
         tick_log["metrics"][j] = "alerts_update" =>
           \A i \in 1..j : tick_log["metrics"][i] # "metrics_update"

\* C30: new_machines comes before the scan_complete of its tick; a
\* collection tick publishes exactly one metrics_update, after the write-back
\* and evaluation of the whole cycle and after the alerts_update of the
\* cycle, if there is one
C30_EnvelopeOrder ==
    /\ EnvelopesInOrder
    /\ loops["metrics"] = "sleep" =>
         Count(tick_log["metrics"], "metrics_update") = 1

\* ---------------------------------------------------------------------
\* Discovery and collection cycles over two machines that the first
\* discovery found, with tasks that may end in an exception and the HTTP
\* removal of a machine
\* ---------------------------------------------------------------------

CycleInit ==
    /\ subnet = Hosts
    /\ reachable = Hosts
    /\ \E up \in SUBSET Hosts : ssh_up = up
    /\ clock = 1
    /\ machines = Reconciled(EmptyMap, Hosts, 1)
    /\ tasks = EmptyMap
    /\ collecting = FALSE
    /\ all_new_alerts = <<>>
    /\ adds = 0
    /\ marked = {}
    /\ cycle_marked = {}
    /\ alerts = <<>>
    /\ emitted = <<>>
    /\ new_alerts = <<>>
    /\ ack_call = NoCall
    /\ evals = 0
    /\ arg = ConfiguredMachine("192.168.44.1")
    /\ WsIdle
    /\ SshIdle
    /\ MoreIdle
    /\ SchedIdle
    /\ TripIdle
    /\ SyncIdle

WorkRaises == \E ip \in subnet : WorkerRaises(ip)

CycleNext ==
    \/ NetworkScanTick
    \/ MetricsStart
    \/ Work
    \/ WorkRaises
    \/ MetricsFinish
    \/ Remove

CycleSpec == CycleInit /\ [][CycleNext]_vars

\* C26: a collection that has completed is not kept waiting for its
\* write-back by a collection of the same cycle that has not: the entries of
\* `tasks` are the results not yet written back
C26_WriteBackDoesNotWait ==
    \A ip \in DOMAIN tasks :
        (tasks[ip].done /\ ~tasks[ip].exc) =>
            \A other \in DOMAIN tasks : tasks[other].done

\* C29: when the gather has returned, every machine whose task returned is
\* in the inventory with its result, the evaluation is that of the records
\* then in the inventory, and a machine whose task raised is neither written
\* back nor evaluated
C29_EvaluatedAfterWriteBack ==
    [][MetricsFinish =>
         LET raised == {ip \in DOMAIN tasks : tasks[ip].exc}
             order == SelectSeq(HostOrder,
                                LAMBDA ip : ip \in DOMAIN tasks \ raised)
             written == [i \in 1..Len(order) |-> machines'[order[i]]]
         IN /\ \A ip \in DOMAIN tasks \ raised :
                  ip \in DOMAIN machines' /\ machines'[ip] = TaskObj(ip)
            /\ all_new_alerts' = AllNewAlerts(written, clock)
            /\ \A ip \in raised :
                  /\ ip \in DOMAIN machines' <=> ip \in DOMAIN machines
                  /\ ip \in DOMAIN machines => machines'[ip] = machines[ip]
                  /\ \A i \in DOMAIN all_new_alerts' :
                        all_new_alerts'[i].machine_ip # ip]_vars

\* a cycle is over in which the task of 192.168.44.2 raised before it had
\* touched its machine, while 192.168.44.1 was collected and raised alerts
C29_Witness ==
    /\ ~collecting
    /\ tasks = EmptyMap
    /\ all_new_alerts # <<>>
    /\ \A i \in DOMAIN all_new_alerts : all_new_alerts[i].machine_ip = "192.168.44.1"
    /\ DOMAIN machines = Hosts
    /\ machines["192.168.44.1"].last_scan = clock
    /\ machines["192.168.44.2"].last_scan = 0
    /\ machines["192.168.44.2"].status = ONLINE

\* C23: a key leaves the inventory only in a remove_machine(ip) step, and
\* that step takes away ip alone; discovery, collection, the write-back and
\* the evaluation take none away
C23_OnlyRemoveShrinksInventory ==
    [][\A ip \in DOMAIN machines \ DOMAIN machines' :
          /\ RemoveMachine(ip)
          /\ DOMAIN machines' = DOMAIN machines \ {ip}]_vars

\* 192.168.44.1 was removed while its collection was in flight, and the
\* other machine is still in the inventory
C23_Witness ==
    /\ DOMAIN machines = {"192.168.44.2"}
    /\ collecting
    /\ "192.168.44.1" \in DOMAIN tasks
    /\ ~tasks["192.168.44.1"].held

\* ---------------------------------------------------------------------
\* A Machine from the collector to a subscriber: _collect_agents builds the
\* agents from what docker reports, the scheduler dumps the Machine into an
\* envelope, the subscriber parses it back into a Machine
\* ---------------------------------------------------------------------

\* one container as docker ps and docker stats report it, after parsing
Observations ==
    {[name |-> n, up |-> u, cpu_percent |-> c, memory_usage |-> g,
      memory_percent |-> p, command |-> k] :
        n \in {"fabrik-api"}, u \in BOOLEAN, c \in {0, 12}, g \in {"", "1GiB"},
        p \in {0, 40}, k \in {"", "uvicorn"}}

\* the keyword arguments _collect_agents passes to AgentInfo (lines 339-348)
ObservedKwargs(o, now) ==
    [name |-> o.name, role |-> "container",
     status |-> IF o.up THEN "running" ELSE "stopped",
     last_activity |-> now, cpu_percent |-> o.cpu_percent,
     memory_usage |-> o.memory_usage, memory_percent |-> o.memory_percent,
     command |-> o.command]

\* the fields AgentInfo declares, with their defaults; None is 0
AgentDefaults ==
    [name |-> "", role |-> "agent", status |-> "unknown", current_task |-> 0,
     last_activity |-> 0]

\* AgentInfo(**kwargs): a pydantic model keeps its declared fields and
\* ignores every other keyword
AgentInfo(kwargs) ==
    [f \in DOMAIN AgentDefaults |->
        IF f \in DOMAIN kwargs THEN kwargs[f] ELSE AgentDefaults[f]]

CollectAgents(observed, now) ==
    [i \in DOMAIN observed |-> AgentInfo(ObservedKwargs(observed[i], now))]

\* model_dump(mode="json") of a datetime field: None becomes null (<<>>), a
\* datetime its ISO string (<<t>>); the subscriber parses it back
JsonTime(t) == IF t = 0 THEN <<>> ELSE <<t>>
ParseTime(j) == IF j = <<>> THEN 0 ELSE j[1]

DumpAgent(a) == [a EXCEPT !.last_activity = JsonTime(@)]
ParseAgent(j) ==
    [f \in DOMAIN AgentDefaults |->
        IF f \notin DOMAIN j THEN AgentDefaults[f]
        ELSE IF f = "last_activity" THEN ParseTime(j[f]) ELSE j[f]]

\* m.model_dump(mode="json"): the declared fields, the status as its string
DumpMachine(m) ==
    [m EXCEPT !.last_seen = JsonTime(@), !.last_scan = JsonTime(@),
              !.agents = [i \in DOMAIN @ |-> DumpAgent(@[i])]]

\* Machine.model_validate of the parsed JSON
ParseMachine(j) ==
    [j EXCEPT !.last_seen = ParseTime(@), !.last_scan = ParseTime(@),
              !.agents = [i \in DOMAIN @ |-> ParseAgent(@[i])]]

\* the machines of the round trip: collected a moment ago, or never
TripMachines ==
    {Machine("192.168.44.1", st, c, 50, <<DiskMetrics(50)>>, seen, scan, TRUE) :
        st \in {ONLINE, DEGRADED}, c \in {50, 95}, seen \in {1}, scan \in {0, 1}}

\* _collect_sync line 132: machine.agents = self._collect_agents(client)
AgentsCollected ==
    /\ trip.stage = "observed"
    /\ trip' = [trip EXCEPT !.stage = "collected",
                            !.machine = ("agents" :> CollectAgents(trip.observed, 1))
                                        @@ trip.machine]
    /\ UNCHANGED <<schedVars, sync, alertVars, pipeVars, wsVars, sshVars, moreVars>>

\* the scheduler puts the dump of the Machine into an envelope
EnvelopeSent ==
    /\ trip.stage = "collected"
    /\ trip' = [trip EXCEPT !.stage = "sent",
                            !.envelope = [type |-> "metrics_update",
                                          data |-> DumpMachine(trip.machine)]]
    /\ UNCHANGED <<schedVars, sync, alertVars, pipeVars, wsVars, sshVars, moreVars>>

\* a subscriber parses the envelope
EnvelopeParsed ==
    /\ trip.stage = "sent"
    /\ trip' = [trip EXCEPT !.stage = "received",
                            !.received = ParseMachine(trip.envelope.data)]
    /\ UNCHANGED <<schedVars, sync, alertVars, pipeVars, wsVars, sshVars, moreVars>>

TripInit ==
    /\ \E m \in TripMachines, o \in Observations, n \in 0..1 :
         trip = [stage |-> "observed", observed |-> [i \in 1..n |-> o],
                 machine |-> m, envelope |-> <<>>, received |-> <<>>]
    /\ SchedIdle
    /\ SyncIdle
    /\ AlertIdle
    /\ PipeIdle
    /\ WsIdle
    /\ SshIdle
    /\ MoreIdle

TripNext ==
    \/ AgentsCollected
    \/ EnvelopeSent
    \/ EnvelopeParsed

TripSpec == TripInit /\ [][TripNext]_vars

\* the Machine a subscriber parses is the Machine object that was dumped
DumpParsesBack == trip.stage = "received" => trip.received = trip.machine

\* C24: the Machine a subscriber parses out of an envelope is the Machine
\* that was collected, and each of its agents carries the name, status,
\* cpu_percent, memory_percent and command the collector observed
C24_RoundTripKeepsAgentFields ==
    trip.stage = "received" =>
      /\ trip.received = trip.machine
      /\ \A i \in DOMAIN trip.observed :
           LET o == ObservedKwargs(trip.observed[i], 1)
               a == trip.received.agents[i]
           IN /\ {"name", "status", "cpu_percent", "memory_percent", "command"}
                    \subseteq DOMAIN a
              /\ a.name = o.name
              /\ a.status = o.status
              /\ a.cpu_percent = o.cpu_percent
              /\ a.memory_percent = o.memory_percent
              /\ a.command = o.command

\* ---------------------------------------------------------------------
\* _collect_sync statement by statement. It runs in an executor thread on
\* the Machine object the inventory holds, and between two of its
\* assignments it waits for a remote command; the event loop thread serves
\* readers of the inventory meanwhile.
\* ---------------------------------------------------------------------

SyncFrame ==
    UNCHANGED <<subnet, tasks, collecting, all_new_alerts, reachable, ssh_up, adds,
                marked, cycle_marked, alertVars, wsVars, sshVars, schedVars, trip, moreVars>>

\* the call has made the inventory's object m and is at statement pc
SyncGoes(ip, pc, m) ==
    /\ machines' = [machines EXCEPT ![ip] = m]
    /\ sync' = [sync EXCEPT ![ip].pc = pc]
    /\ SyncFrame

\* collect_metrics(machine) is called for a machine of the inventory: with no
\* session lines 99-102 run, else the call goes on to line 104
SyncBegins(ip) ==
    /\ ip \in DOMAIN machines
    /\ ip \notin DOMAIN sync
    /\ IF ip \in ssh_up
         THEN /\ \E r \in Readings :
                   sync' = Put(sync, ip, [pc |-> "online", r |-> r,
                                          before |-> machines[ip]])
              /\ machines' = machines
         ELSE /\ machines' = [machines EXCEPT ![ip] = CollectFailed(@, clock)]
              /\ sync' = sync
    /\ SyncFrame

\* lines 104-106
SyncOnline(ip) ==
    /\ ip \in DOMAIN sync
    /\ sync[ip].pc = "online"
    /\ SyncGoes(ip, "cpu", [machines[ip] EXCEPT !.status = ONLINE,
                                                !.last_scan = clock,
                                                !.last_seen = clock])

\* line 120
SyncCpu(ip) ==
    /\ ip \in DOMAIN sync
    /\ sync[ip].pc = "cpu"
    /\ SyncGoes(ip, "memory", [machines[ip] EXCEPT !.cpu = CpuMetrics(sync[ip].r.cpu)])

\* line 123
SyncMemory(ip) ==
    /\ ip \in DOMAIN sync
    /\ sync[ip].pc = "memory"
    /\ SyncGoes(ip, "disks",
                [machines[ip] EXCEPT !.memory = MemoryMetrics(sync[ip].r.memory)])

\* line 126
SyncDisks(ip) ==
    /\ ip \in DOMAIN sync
    /\ sync[ip].pc = "disks"
    /\ SyncGoes(ip, "rule", [machines[ip] EXCEPT !.disks = sync[ip].r.disks])

\* lines 135-141: the status rule, and the call returns
SyncReturns(ip) ==
    /\ ip \in DOMAIN sync
    /\ sync[ip].pc = "rule"
    /\ LET m == machines[ip] IN
         machines' = [machines EXCEPT ![ip].status =
                        IF IsDegraded(m.cpu.usage_percent, m.memory.usage_percent,
                                      m.disks)
                          THEN DEGRADED ELSE @]
    /\ sync' = Drop(sync, ip)
    /\ SyncFrame

SyncInit ==
    /\ subnet = Hosts
    /\ \E known \in SUBSET Hosts :
         machines \in {f \in [known -> UNION {KnownRecords(ip) : ip \in known}] :
                          \A ip \in known : f[ip].ip = ip}
    /\ \E up \in SUBSET Hosts : ssh_up = up
    /\ sync = EmptyMap
    /\ tasks = EmptyMap
    /\ collecting = FALSE
    /\ all_new_alerts = <<>>
    /\ reachable = Hosts
    /\ adds = 0
    /\ marked = {}
    /\ cycle_marked = {}
    /\ alerts = <<>>
    /\ emitted = <<>>
    /\ new_alerts = <<>>
    /\ ack_call = NoCall
    /\ evals = 0
    /\ arg = ConfiguredMachine("192.168.44.1")
    /\ clock = 2
    /\ WsIdle
    /\ SshIdle
    /\ MoreIdle
    /\ SchedIdle
    /\ TripIdle

SyncNext ==
    \E ip \in Hosts :
        \/ SyncBegins(ip)
        \/ SyncOnline(ip)
        \/ SyncCpu(ip)
        \/ SyncMemory(ip)
        \/ SyncDisks(ip)
        \/ SyncReturns(ip)

SyncSpec == SyncInit /\ [][SyncNext]_vars

\* the statements of _collect_sync add up to CollectOk
SyncAddsUpToCollectOk ==
    [][\A ip \in Hosts :
          SyncReturns(ip) =>
             machines'[ip] = CollectOk(sync[ip].before, sync[ip].r, clock)]_vars

\* C25: what get_machine and get_all_machines return for a machine that is
\* being collected is the record as it was before the collection or the
\* record as the collection leaves it, never a mixture of the two
C25_ReadersSeeWholeRecords ==
    \A ip \in DOMAIN sync :
        \/ machines[ip] = sync[ip].before
        \/ machines[ip] = CollectOk(sync[ip].before, sync[ip].r, clock)

\* C35: every Machine of the inventory has at least one disk entry, in every
\* state: before it was ever collected, after a collection that got no
\* session, and after one whose disk probe could not be parsed
C35_EveryMachineHasADisk ==
    \A ip \in DOMAIN machines : Len(machines[ip].disks) >= 1

\* ---------------------------------------------------------------------
\* One _collect_sync call that got a session, from the outputs of its remote
\* commands to the Machine it returns and the alerts check_machine makes of
\* it. An output is valid, empty, or malformed (text the parser cannot
\* convert); percentages are whole numbers.
\* ---------------------------------------------------------------------

Output(kind, v, w) == [kind |-> kind, v |-> v, w |-> w]
Empty == Output("empty", 0, 0)
Malformed == Output("malformed", 0, 0)

\* nproc: the number of cores
NprocOutputs == {Output("valid", 2, 0), Malformed}
\* /proc/loadavg: the 1-minute load
LoadavgOutputs == {Output("valid", 1, 0), Empty, Malformed}
\* top: the idle percentage
TopOutputs == {Output("valid", i, 0) : i \in {50, 10, 9, 5}} \cup {Empty, Malformed}
\* free -b: used and total, in units of one hundredth of the memory
FreeOutputs == {Output("valid", u, 100) : u \in {50, 90, 91, 95}} \cup {Empty, Malformed}
\* df: used and total of /, in units of one hundredth of the disk
DfOutputs == {Output("valid", u, 100) : u \in {50, 95, 96}} \cup {Empty, Malformed}

\* _collect_cpu, the usage_percent of the CpuMetrics it returns. A load
\* average that float() rejects raises inside the try: the metrics are
\* returned as they are and top is not asked. A top line that float()
\* rejects raises too, and leaves what the load average gave.
CollectCpu(nproc, loadavg, top) ==
    LET cores == IF nproc.kind = "valid" THEN nproc.v ELSE 1
        by_load == IF loadavg.kind = "valid"
                     THEN (loadavg.v * 100) \div Max(cores, 1) ELSE 0
    IN IF loadavg.kind = "malformed" THEN 0
       ELSE IF top.kind = "valid" THEN 100 - top.v
       ELSE by_load

\* _collect_memory, the usage_percent of the MemoryMetrics it returns
CollectMemory(free) ==
    IF free.kind = "valid" /\ free.w > 0 THEN (free.v * 100) \div free.w ELSE 0

Mut_CollectDisks(df) ==
    IF df.kind = "valid"
      THEN <<DiskMetrics(IF df.w > 0 THEN (df.v * 100) \div df.w ELSE 0)>>
      ELSE <<>>

\* _collect_disks: the entries parsed, or one default entry
CollectDisks(df) ==
    IF df.kind = "valid"
      THEN <<DiskMetrics(IF df.w > 0 THEN (df.v * 100) \div df.w ELSE 0)>>
      ELSE <<DiskMetrics(0)>>

\* what the parsers make of the outputs
Parsed(out) ==
    Reading(CollectCpu(out.nproc, out.loadavg, out.top),
            CollectMemory(out.free),
            CollectDisks(out.df))

\* the machines collected: a record of each status
ProbedMachines ==
    {Machine("192.168.44.1", st, 95, 50, <<DiskMetrics(50)>>, 1, 1, TRUE) :
        st \in MachineStatus}

ProbeFrame ==
    UNCHANGED <<alertVars, pipeVars, wsVars, sshVars, schedVars, trip, sync,
                connVars, lifeVars>>

\* _collect_sync lines 104-141
ProbeCollected ==
    /\ probe.stage = "called"
    /\ probe' = [probe EXCEPT !.stage = "collected",
                              !.got = CollectOk(probe.before, Parsed(probe.out), clock)]
    /\ ProbeFrame

\* check_machine(result)
ProbeEvaluated ==
    /\ probe.stage = "collected"
    /\ probe' = [probe EXCEPT !.stage = "evaluated",
                              !.alerts = CheckAlerts(probe.got, clock)]
    /\ ProbeFrame

ProbeInit ==
    /\ \E m \in ProbedMachines, n \in NprocOutputs, l \in LoadavgOutputs,
          t \in TopOutputs, f \in FreeOutputs, d \in DfOutputs :
         probe = [stage |-> "called", before |-> m,
                  out |-> [nproc |-> n, loadavg |-> l, top |-> t, free |-> f,
                           df |-> d],
                  got |-> m, alerts |-> <<>>]
    /\ AlertIdle
    /\ PipeIdle
    /\ WsIdle
    /\ SshIdle
    /\ SchedIdle
    /\ TripIdle
    /\ SyncIdle
    /\ ConnIdle
    /\ LifeIdle

ProbeNext ==
    \/ ProbeCollected
    \/ ProbeEvaluated

ProbeSpec == ProbeInit /\ [][ProbeNext]_vars

\* C32: the status a collection with a session leaves is ONLINE when the
\* fresh cpu and memory are at most 90 and every fresh disk at most 95, and
\* DEGRADED otherwise, whatever the status was before
C32_StatusFromFreshValues ==
    probe.stage \in {"collected", "evaluated"} =>
      LET m == probe.got
          calm == /\ m.cpu.usage_percent <= 90
                  /\ m.memory.usage_percent <= 90
                  /\ \A i \in DOMAIN m.disks : m.disks[i].usage_percent <= 95
      IN /\ m.cpu.usage_percent = CollectCpu(probe.out.nproc, probe.out.loadavg,
                                             probe.out.top)
         /\ m.memory.usage_percent = CollectMemory(probe.out.free)
         /\ m.disks = CollectDisks(probe.out.df)
         /\ m.status = IF calm THEN ONLINE ELSE DEGRADED

\* a machine that was DEGRADED with a cpu of 95 has been collected with
\* every value under its threshold, and is ONLINE
C32_Witness ==
    /\ probe.stage = "collected"
    /\ probe.before.status = DEGRADED
    /\ probe.got.cpu.usage_percent = 90
    /\ probe.got.memory.usage_percent = 90
    /\ probe.got.disks[1].usage_percent = 95
    /\ probe.got.status = ONLINE

C39_CriticalAlertMeansDegraded ==
    probe.stage = "evaluated" =>
      ((\E i \in DOMAIN probe.alerts :
            /\ probe.alerts[i].severity = CRITICAL
            /\ probe.alerts[i].metric \in {"cpu", "memory", "disk"})
        => probe.got.status = DEGRADED)

\* C37: a machine comes into the inventory only when it is added or when a
\* discovery registers it: a machine that was removed is not put back by the
\* write-back of a collection that was in flight when it was removed
C37_RemovedStaysRemoved ==
    [][DOMAIN machines' \ DOMAIN machines # {} =>
          (NetworkScanTick \/ \E m \in AddInputs : AddMachine(m))]_vars

\* ---------------------------------------------------------------------
\* BackgroundScheduler.start and stop as any caller may use them, with the
\* loop tasks told apart: a task is <<activity, number of the start() that
\* made it>>
\* ---------------------------------------------------------------------

LifeFrame ==
    UNCHANGED <<scan_interval, loops, tick_log, trip, sync, connVars, probe,
                alertVars, pipeVars, wsVars, sshVars>>

\* the tasks one start() call creates
Created(n) == {<<a, n>> : a \in Activities}

\* start(): _running is set and _tasks is assigned the list of new tasks
StartCalled ==
    /\ starts < MaxStarts
    /\ starts' = starts + 1
    /\ running' = TRUE
    /\ live_tasks' = [t \in DOMAIN live_tasks \cup Created(starts + 1) |->
                        IF t \in DOMAIN live_tasks THEN live_tasks[t] ELSE "work"]
    /\ tracked_tasks' = Created(starts + 1)
    /\ LifeFrame

\* stop(): _running is cleared, the tasks of _tasks are cancelled and the
\* list is emptied
StopCalled ==
    /\ running' = FALSE
    /\ live_tasks' = [t \in DOMAIN live_tasks \ tracked_tasks |-> live_tasks[t]]
    /\ tracked_tasks' = {}
    /\ UNCHANGED starts
    /\ LifeFrame

\* a loop task ends the work of its tick and sleeps
TaskSleeps(t) ==
    /\ t \in DOMAIN live_tasks
    /\ live_tasks[t] = "work"
    /\ live_tasks' = [live_tasks EXCEPT ![t] = "sleep"]
    /\ UNCHANGED <<running, tracked_tasks, starts>>
    /\ LifeFrame

\* its sleep is over: `while self._running`, and the next tick or the end
\* of the task
TaskWakes(t) ==
    /\ t \in DOMAIN live_tasks
    /\ live_tasks[t] = "sleep"
    /\ live_tasks' = IF running THEN [live_tasks EXCEPT ![t] = "work"]
                     ELSE [u \in DOMAIN live_tasks \ {t} |-> live_tasks[u]]
    /\ UNCHANGED <<running, tracked_tasks, starts>>
    /\ LifeFrame

LifeInit ==
    /\ LifeIdle
    /\ SchedIdle
    /\ TripIdle
    /\ SyncIdle
    /\ ConnIdle
    /\ probe = NoProbe
    /\ AlertIdle
    /\ PipeIdle
    /\ WsIdle
    /\ SshIdle

TaskStep ==
    \E t \in DOMAIN live_tasks : TaskSleeps(t) \/ TaskWakes(t)

LifeNext ==
    \/ StartCalled
    \/ StopCalled
    \/ TaskStep

LifeSpec == LifeInit /\ [][LifeNext]_vars

\* C36: there is never more than one task of an activity, and when the
\* scheduler is stopped there is none
C36_StartIsIdempotent ==
    /\ \A a \in Activities :
         Cardinality({t \in DOMAIN live_tasks : t[1] = a}) <= 1
    /\ ~running => DOMAIN live_tasks = {}

\* ---------------------------------------------------------------------
\* SSHManager._get_client and close_all, with the sessions told apart.
\* Two collections may be in an executor thread at once: the worker of a
\* periodic cycle and a manual refresh.
\* ---------------------------------------------------------------------

ConnFrame ==
    UNCHANGED <<alertVars, pipeVars, wsVars, sshVars, schedVars, trip, sync,
                lifeVars, probe>>

Idle == [pc |-> "idle"]

Call(pc, ip, found, held) == [pc |-> pc, ip |-> ip, found |-> found, held |-> held]

NewSession(ip) == [ip |-> ip, open |-> TRUE, alive |-> TRUE]

\* `transport and transport.is_active()`: a closed client has no transport
Mut_Active(ss, id) == TRUE
Active(ss, id) == ss[id].open /\ ss[id].alive

Closed(ss, ids) ==
    [i \in 1..Len(ss) |-> IF i \in ids THEN [ss[i] EXCEPT !.open = FALSE] ELSE ss[i]]

\* collect_metrics hands _collect_sync to an executor thread
CollectBegins(c, ip) ==
    /\ ~closed_all
    /\ calls[c].pc = "idle"
    /\ calls' = [calls EXCEPT ![c] = Call("check", ip, 0, 0)]
    /\ UNCHANGED <<sessions, cache, closed_all>>
    /\ ConnFrame

\* `if machine.ip in self._connections`, and the test of the transport
GetClientChecks(c) ==
    /\ calls[c].pc = "check"
    /\ LET ip == calls[c].ip IN
         calls' = [calls EXCEPT ![c] =
                     IF ip \notin DOMAIN cache THEN Call("connect", ip, 0, 0)
                     ELSE IF Active(sessions, cache[ip]) THEN Call("using", ip, 0, cache[ip])
                     ELSE Call("close", ip, cache[ip], 0)]
    /\ UNCHANGED <<sessions, cache, closed_all>>
    /\ ConnFrame

\* `client.close()` of the session found dead
GetClientCloses(c) ==
    /\ calls[c].pc = "close"
    /\ sessions' = Closed(sessions, {calls[c].found})
    /\ calls' = [calls EXCEPT ![c].pc = "del"]
    /\ UNCHANGED <<cache, closed_all>>
    /\ ConnFrame

\* `del self._connections[machine.ip]`; a KeyError ends the call with None
GetClientDeletes(c) ==
    /\ calls[c].pc = "del"
    /\ IF calls[c].ip \in DOMAIN cache
         THEN /\ cache' = Drop(cache, calls[c].ip)
              /\ calls' = [calls EXCEPT ![c].pc = "connect"]
         ELSE /\ cache' = cache
              /\ calls' = [calls EXCEPT ![c] = Idle]
    /\ UNCHANGED <<sessions, closed_all>>
    /\ ConnFrame

\* `client.connect(...)` returns or raises; a client that connected is
\* stored under its ip
GetClientConnects(c, ok) ==
    /\ calls[c].pc = "connect"
    /\ IF ok
         THEN /\ Len(sessions) < MaxSessions
              /\ sessions' = Append(sessions, NewSession(calls[c].ip))
              /\ cache' = Put(cache, calls[c].ip, Len(sessions) + 1)
              /\ calls' = [calls EXCEPT ![c].pc = "using", ![c].held = Len(sessions) + 1]
         ELSE /\ calls' = [calls EXCEPT ![c] = Idle]
              /\ UNCHANGED <<sessions, cache>>
    /\ UNCHANGED closed_all
    /\ ConnFrame

\* _collect_sync has run its commands and returns
CollectReturns(c) ==
    /\ calls[c].pc = "using"
    /\ calls' = [calls EXCEPT ![c] = Idle]
    /\ UNCHANGED <<sessions, cache, closed_all>>
    /\ ConnFrame

\* the transport of a session ends: the remote side or the network
TransportDies(id) ==
    /\ id \in 1..Len(sessions)
    /\ Active(sessions, id)
    /\ sessions' = [sessions EXCEPT ![id].alive = FALSE]
    /\ UNCHANGED <<cache, calls, closed_all>>
    /\ ConnFrame

\* close_all: every cached client is closed and the dict is cleared; from
\* apply_settings while serving, from the lifespan at shutdown
CloseAll(shutdown) ==
    /\ ~closed_all
    /\ sessions' = Closed(sessions, {cache[ip] : ip \in DOMAIN cache})
    /\ cache' = EmptyMap
    /\ closed_all' = shutdown
    /\ UNCHANGED calls
    /\ ConnFrame

ConnInit ==
    /\ ConnIdle
    /\ LifeIdle
    /\ probe = NoProbe
    /\ SchedIdle
    /\ TripIdle
    /\ SyncIdle
    /\ AlertIdle
    /\ PipeIdle
    /\ WsIdle
    /\ SshIdle

CollectStarts == \E c \in Callers, ip \in Hosts : CollectBegins(c, ip)

GetClientStep ==
    \E c \in Callers :
        \/ GetClientChecks(c)
        \/ GetClientCloses(c)
        \/ GetClientDeletes(c)
        \/ \E ok \in BOOLEAN : GetClientConnects(c, ok)
        \/ CollectReturns(c)

TransportEnds == \E id \in 1..Len(sessions) : TransportDies(id)

ClosesAll == \E shutdown \in BOOLEAN : CloseAll(shutdown)

ConnNext ==
    \/ CollectStarts
    \/ GetClientStep
    \/ TransportEnds
    \/ ClosesAll

ConnSpec == ConnInit /\ [][ConnNext]_vars

Leaves(c, pc) == calls[c].pc = pc /\ calls'[c].pc # pc

\* C31: the cache names, for an ip, one session of that ip.  A call that
\* finds the cached session alive goes on with that session: no session is
\* made and the cache is as it was.  A call that finds it dead goes on to
\* close it, and while that call connects and when it caches the new
\* session, the dead one is closed and no longer in the cache.
C31_CachedSessionReused ==
    /\ [](\A ip \in DOMAIN cache :
            cache[ip] \in 1..Len(sessions) /\ sessions[cache[ip]].ip = ip)
    /\ [](\A c \in Callers :
            (calls[c].pc = "connect" /\ calls[c].found # 0) =>
                /\ ~sessions[calls[c].found].open
                /\ \A ip \in DOMAIN cache : cache[ip] # calls[c].found)
    /\ [][\A c \in Callers :
            /\ (Leaves(c, "check") /\ calls[c].ip \in DOMAIN cache) =>
                 LET id == cache[calls[c].ip] IN
                   IF sessions[id].open /\ sessions[id].alive
                     THEN /\ calls'[c].pc = "using"
                          /\ calls'[c].held = id
                          /\ sessions' = sessions
                          /\ cache' = cache
                     ELSE /\ calls'[c].pc = "close"
                          /\ calls'[c].found = id
            /\ (Leaves(c, "connect") /\ calls'[c].pc = "using" /\ calls[c].found # 0) =>
                 /\ ~sessions[calls[c].found].open
                 /\ cache'[calls[c].ip] = calls'[c].held
                 /\ calls'[c].held # calls[c].found]_vars

\* a call found its cached session dead, closed and removed it, and has
\* cached and holds the session it made instead
C31_Witness ==
    \E c \in Callers :
        /\ calls[c].pc = "using"
        /\ calls[c].found # 0
        /\ calls[c].held # calls[c].found
        /\ calls[c].ip \in DOMAIN cache
        /\ cache[calls[c].ip] = calls[c].held
        /\ ~sessions[calls[c].found].open

\* C38: a session that is open is the one the cache names for its ip
C38_OpenSessionsAreCached ==
    \A id \in 1..Len(sessions) :
        sessions[id].open =>
            /\ sessions[id].ip \in DOMAIN cache
            /\ cache[sessions[id].ip] = id

\* C33: once the shutdown step has run close_all, no session is open and
\* the cache is empty
C33_ShutdownClosesEverything ==
    closed_all =>
        /\ cache = EmptyMap
        /\ \A id \in 1..Len(sessions) : ~sessions[id].open

====
